---------------------------- MODULE Spec2Model ----------------------------
(***************************************************************************)
(* The backend-tools-handbook site: a navigation descriptor (sidebars.js), *)
(* a site configuration (docusaurus.config.js) and a corpus of Markdown    *)
(* documents, compiled by the site generator.  The declarative values are  *)
(* transcribed from the source; the build below is the generator's reading *)
(* of the options the configuration sets (docs.sidebarPath, onBrokenLinks, *)
(* the footer's copyright template).                                       *)
(*                                                                         *)
(* Strings are atomic here, so a file name "03-Filtering-Data.md" is the   *)
(* record [prefix |-> "03", stem |-> "Filtering-Data"] (the extension .md  *)
(* is implied) and "Grouping-Data.md" has prefix "".                       *)
(***************************************************************************)
EXTENDS Integers, Sequences, FiniteSets, TLC

(***************************************************************************)
(* Bounds of the model.                                                    *)
(***************************************************************************)
\* number of times the build is run on the same input
MaxBuilds == 2
\* the clock runs from 0 to MaxClock ticks
MaxClock == 3
\* ticks in one calendar year
TicksPerYear == 2

(***************************************************************************)
(* File names and Markdown links.                                          *)
(***************************************************************************)
File(prefix, stem) == [prefix |-> prefix, stem |-> stem]

Plain(stem) == File("", stem)

(***************************************************************************)
(* The navigation descriptor: sidebars.js.                                 *)
(***************************************************************************)
DocNode(id, label) == [type |-> "doc", id |-> id, label |-> label]

CategoryNode(label, items) == [type |-> "category", label |-> label, items |-> items]

HomeNode == DocNode("index", "Home")

\* mutation: the label of the second Postman item copied from the first
PostmanItems_sameLabel ==
  << DocNode("POSTMAN_GUIDE_PART1_BASICS", "Basics"),
     DocNode("POSTMAN_GUIDE_PART2_ADVANCED", "Basics") >>

\* mutation: the Git item written without its label
GitItems_bareId == << [type |-> "doc", id |-> "Git_Guide"] >>

\* mutation: an id spelt with an underscore
SQLItems_misspelt ==
  << DocNode("Introduction", "00 Introduction"),
     DocNode("Getting_Started", "01 Getting Started"),
     DocNode("Querying-Data", "02 Querying Data"),
     DocNode("Filtering-Data", "03 Filtering Data"),
     DocNode("Joining-Tables", "04 Joining Tables"),
     DocNode("Grouping-Data", "05 Grouping Data"),
     DocNode("Set-Operations", "06 Set Operations"),
     DocNode("Modifying-Data", "07 Modifying Data"),
     DocNode("Subqueries", "08 Subqueries"),
     DocNode("Data-Types", "09 Data Types"),
     DocNode("Managing-Tables", "10 Managing Tables"),
     DocNode("Constraints", "11 Constraints") >>

\* mutation: the second and third module declared in the other order
SQLItems_swapped ==
  << DocNode("Introduction", "00 Introduction"),
     DocNode("Querying-Data", "02 Querying Data"),
     DocNode("Getting-Started", "01 Getting Started"),
     DocNode("Filtering-Data", "03 Filtering Data"),
     DocNode("Joining-Tables", "04 Joining Tables"),
     DocNode("Grouping-Data", "05 Grouping Data"),
     DocNode("Set-Operations", "06 Set Operations"),
     DocNode("Modifying-Data", "07 Modifying Data"),
     DocNode("Subqueries", "08 Subqueries"),
     DocNode("Data-Types", "09 Data Types"),
     DocNode("Managing-Tables", "10 Managing Tables"),
     DocNode("Constraints", "11 Constraints") >>

\* mutation: the last module left out of the category
SQLItems_withoutLast ==
  << DocNode("Introduction", "00 Introduction"),
     DocNode("Getting-Started", "01 Getting Started"),
     DocNode("Querying-Data", "02 Querying Data"),
     DocNode("Filtering-Data", "03 Filtering Data"),
     DocNode("Joining-Tables", "04 Joining Tables"),
     DocNode("Grouping-Data", "05 Grouping Data"),
     DocNode("Set-Operations", "06 Set Operations"),
     DocNode("Modifying-Data", "07 Modifying Data"),
     DocNode("Subqueries", "08 Subqueries"),
     DocNode("Data-Types", "09 Data Types"),
     DocNode("Managing-Tables", "10 Managing Tables") >>

\* mutation: the id of the second Postman item copied from the first
PostmanItems_sameId ==
  << DocNode("POSTMAN_GUIDE_PART1_BASICS", "Basics"),
     DocNode("POSTMAN_GUIDE_PART1_BASICS", "Advanced") >>

cURLItems == << DocNode("CURL_GUIDE", "Guide") >>

PostmanItems ==
  << DocNode("POSTMAN_GUIDE_PART1_BASICS", "Basics"),
     DocNode("POSTMAN_GUIDE_PART2_ADVANCED", "Advanced") >>

GitItems == << DocNode("Git_Guide", "Guide") >>

SQLItems ==
  << DocNode("Introduction", "00 Introduction"),
     DocNode("Getting-Started", "01 Getting Started"),
     DocNode("Querying-Data", "02 Querying Data"),
     DocNode("Filtering-Data", "03 Filtering Data"),
     DocNode("Joining-Tables", "04 Joining Tables"),
     DocNode("Grouping-Data", "05 Grouping Data"),
     DocNode("Set-Operations", "06 Set Operations"),
     DocNode("Modifying-Data", "07 Modifying Data"),
     DocNode("Subqueries", "08 Subqueries"),
     DocNode("Data-Types", "09 Data Types"),
     DocNode("Managing-Tables", "10 Managing Tables"),
     DocNode("Constraints", "11 Constraints") >>

\* mutation: the Git category declared before the Postman category
tutorialSidebar_gitFirst ==
  << HomeNode,
     CategoryNode("cURL", cURLItems),
     CategoryNode("Git", GitItems),
     CategoryNode("Postman", PostmanItems),
     CategoryNode("SQL", SQLItems) >>

\* mutation: the home document declared after the categories
tutorialSidebar_homeLast ==
  << CategoryNode("cURL", cURLItems),
     CategoryNode("Postman", PostmanItems),
     CategoryNode("Git", GitItems),
     CategoryNode("SQL", SQLItems),
     HomeNode >>

tutorialSidebar ==
  << HomeNode,
     CategoryNode("cURL", cURLItems),
     CategoryNode("Postman", PostmanItems),
     CategoryNode("Git", GitItems),
     CategoryNode("SQL", SQLItems) >>

(***************************************************************************)
(* The site configuration: docusaurus.config.js.                           *)
(***************************************************************************)
\* mutation: broken links only reported
onBrokenLinks_warn == "warn"

onBrokenLinks == "throw"

\* mutation: the docs plugin configured without the sidebar file
docsOptions_noSidebarPath == [sidebarPath |-> "", routeBasePath |-> "/"]

docsOptions == [sidebarPath |-> "./sidebars.js", routeBasePath |-> "/"]

\* mutation: the instant itself in place of its year
getFullYear_instant(now) == now

\* new Date().getFullYear(): the calendar year of the instant `now'
getFullYear(now) == now \div TicksPerYear

\* the footer's copyright template, evaluated when the configuration is loaded
copyright(now) ==
  [year |-> getFullYear(now),
   holder |-> "Pragnakalp Techlabs",
   contributors |-> <<"Rahul", "Nikunj", "Neel", "Meet", "Dhvanil", "Mansi", "Darshit">>]

FilePath(dir, base, ext) == [dir |-> dir, base |-> base, ext |-> ext]

\* the option values of the configuration that are paths of files: favicon and
\* navbar logo, docs.sidebarPath, theme.customCss
configPaths ==
  { FilePath("img", "pk-color-128", "png"),
    FilePath(".", "sidebars", "js"),
    FilePath("./src/css", "custom", "css") }

config(now) ==
  [onBrokenLinks |-> onBrokenLinks,
   docs |-> docsOptions,
   footer |-> [style |-> "dark", copyright |-> copyright(now)]]

(***************************************************************************)
(* The content documents.  `name' is the file's name where the source      *)
(* gives it; `links' are the relative Markdown links to .md files.         *)
(***************************************************************************)
Document(id, links) == [id |-> id, links |-> links]

Doc_index == Document("index", <<>>)

\* mutation: the Git guide given a link to the first SQL module
Doc_Git_Guide_linked == Document("Git_Guide", << Plain("Introduction") >>)

Doc_Git_Guide == Document("Git_Guide", <<>>)

Doc_Introduction == Document("Introduction", << Plain("Getting-Started") >>)

Doc_Getting_Started == Document("Getting-Started", << Plain("Querying-Data") >>)

Doc_Querying_Data == Document("Querying-Data", << File("03", "Filtering-Data") >>)

Doc_Filtering_Data == Document("Filtering-Data", << Plain("Joining-Tables") >>)

Doc_Joining_Tables == Document("Joining-Tables", << Plain("Grouping-Data") >>)

Doc_Grouping_Data == Document("Grouping-Data", << File("06", "Set-Operations") >>)

Doc_Set_Operations == Document("Set-Operations", << Plain("Modifying-Data") >>)

Doc_Modifying_Data == Document("Modifying-Data", << File("08", "Subqueries") >>)

Doc_Subqueries == Document("Subqueries", << File("09", "Data-Types") >>)

Doc_Data_Types == Document("Data-Types", << File("10", "Managing-Tables") >>)

Doc_Managing_Tables == Document("Managing-Tables", << Plain("Constraints") >>)

Doc_Constraints == Document("Constraints", <<>>)

\* the documents found under src/
DocsInSource ==
  { Doc_index, Doc_Git_Guide, Doc_Introduction, Doc_Getting_Started,
    Doc_Querying_Data, Doc_Filtering_Data, Doc_Joining_Tables,
    Doc_Grouping_Data, Doc_Set_Operations, Doc_Modifying_Data,
    Doc_Subqueries, Doc_Data_Types, Doc_Managing_Tables, Doc_Constraints }

\* the cURL and Postman guides the handbook covers
DocsOfGuides ==
  { Document("CURL_GUIDE", <<>>),
    Document("POSTMAN_GUIDE_PART1_BASICS", <<>>),
    Document("POSTMAN_GUIDE_PART2_ADVANCED", <<>>) }

RepoDocs == DocsInSource \cup DocsOfGuides

Ids(documents) == { d.id : d \in documents }

RepoDocIds == Ids(RepoDocs)

DocOf(id) == CHOOSE d \in RepoDocs : d.id = id

\* the files whose names the source gives
NamedFiles == { Plain("Introduction"), Plain("Joining-Tables"), Plain("Git_Guide") }

\* every relative .md link of the corpus
AllLinks == UNION { { d.links[i] : i \in DOMAIN d.links } : d \in RepoDocs }

\* The names a document's file can have: the one the source gives, or, where
\* the source does not name the file, <id>.md or a spelling a link uses for it.
CandidateNames(id) ==
  IF Plain(id) \in NamedFiles
    THEN { Plain(id) }
    ELSE { Plain(id) } \cup { l \in AllLinks : l.stem = id }

\* the tools the home document lists as covered, in its order
ToolsCovered == <<"cURL", "Postman", "Git", "SQL">>

\* the entry points the home document gives: <<root category, leaf label>>
EntryPoints ==
  << <<"cURL", "Guide">>, <<"Postman", "Basics">>, <<"Git", "Guide">>, <<"SQL", "Home">> >>

(***************************************************************************)
(* The generator's reading of the descriptor and of the corpus.            *)
(***************************************************************************)
\* a document's id is its file name without the number prefix and extension
DocIdOf(file) == file.stem

IsLeaf(n) ==
  /\ DOMAIN n = {"type", "id", "label"}
  /\ n.type = "doc"
  /\ n.id \in STRING
  /\ n.label \in STRING

RECURSIVE WellFormed(_)
WellFormed(nodes) ==
  \A i \in DOMAIN nodes :
    \/ IsLeaf(nodes[i])
    \/ /\ DOMAIN nodes[i] = {"type", "label", "items"}
       /\ nodes[i].type = "category"
       /\ nodes[i].label \in STRING
       /\ WellFormed(nodes[i].items)

RECURSIVE LeafIds(_)
LeafIds(nodes) ==
  UNION { IF nodes[i].type = "doc" THEN { nodes[i].id } ELSE LeafIds(nodes[i].items)
          : i \in DOMAIN nodes }

RECURSIVE GenerateSidebar(_)
GenerateSidebar(nodes) ==
  [ i \in DOMAIN nodes |->
      IF nodes[i].type = "doc"
        THEN [type |-> "link", label |-> nodes[i].label, docId |-> nodes[i].id]
        ELSE [type |-> "category", label |-> nodes[i].label,
              items |-> GenerateSidebar(nodes[i].items)] ]

RECURSIVE SeqOf(_)
SeqOf(S) ==
  IF S = {} THEN <<>>
  ELSE LET x == CHOOSE y \in S : TRUE IN <<x>> \o SeqOf(S \ {x})

\* without a sidebar file the sidebar is generated from the documents
Autogenerated(ids) ==
  LET s == SeqOf(ids)
  IN  [ i \in DOMAIN s |-> [type |-> "link", label |-> s[i], docId |-> s[i]] ]

\* the links of the corpus whose target is the file of no document of it
BrokenLinks(ids, names) ==
  { <<id, l>> \in ids \X AllLinks :
      /\ \E i \in DOMAIN DocOf(id).links : DocOf(id).links[i] = l
      /\ ~ \E other \in ids : names[other] = l }

(***************************************************************************)
(* The build.                                                              *)
(***************************************************************************)
VARIABLES
  corpus,     \* the ids of the documents of the input
  fileName,   \* the file name of every document
  now,        \* the clock
  phase,      \* "idle", "config", "docs", "sidebar"
  cfg,        \* the configuration as evaluated by the running build
  docs,       \* the document ids the running build has loaded
  sidebar,    \* the sidebar the running build has generated
  results     \* the results of the finished builds, oldest first

vars == <<corpus, fileName, now, phase, cfg, docs, sidebar, results>>

\* the corpus of the repository, and the part of it found under src/
SampleCorpora == { RepoDocIds, Ids(DocsInSource) }

\* the documents whose file name the source leaves open
Unnamed == { id \in RepoDocIds : CandidateNames(id) # { Plain(id) } }

\* every way of naming the files: each is named as one of its candidates
Namings ==
  { [ id \in RepoDocIds |->
        IF id \in N THEN CHOOSE f \in CandidateNames(id) : f # Plain(id) ELSE Plain(id) ]
    : N \in SUBSET Unnamed }

None == <<>>

Init ==
  /\ corpus \in SampleCorpora
  /\ fileName \in Namings
  /\ now = 0
  /\ phase = "idle"
  /\ cfg = None
  /\ docs = {}
  /\ sidebar = None
  /\ results = <<>>

Tick ==
  /\ now < MaxClock
  /\ now' = now + 1
  /\ UNCHANGED <<corpus, fileName, phase, cfg, docs, sidebar, results>>

\* mutation: evaluating the configuration removes the home document
LoadConfig_writing ==
  /\ phase = "idle"
  /\ Len(results) < MaxBuilds
  /\ cfg' = config(now) @@ [startedAt |-> now]
  /\ phase' = "config"
  /\ corpus' = corpus \ { "index" }
  /\ UNCHANGED <<fileName, now, docs, sidebar, results>>

LoadConfig ==
  /\ phase = "idle"
  /\ Len(results) < MaxBuilds
  /\ cfg' = config(now) @@ [startedAt |-> now]
  /\ phase' = "config"
  /\ UNCHANGED <<corpus, fileName, now, docs, sidebar, results>>

LoadDocs ==
  /\ phase = "config"
  /\ docs' = { DocIdOf(fileName[id]) : id \in corpus }
  /\ phase' = "docs"
  /\ UNCHANGED <<corpus, fileName, now, cfg, sidebar, results>>

Finish(result) ==
  /\ results' = Append(results, result @@ [startedAt |-> cfg.startedAt])
  /\ phase' = "idle"
  /\ cfg' = None
  /\ docs' = {}
  /\ sidebar' = None
  /\ UNCHANGED <<corpus, fileName, now>>

Failed(reason) == [status |-> "failed", reason |-> reason]

Succeeded(site) == [status |-> "succeeded", site |-> site]

LoadSidebars ==
  /\ phase = "docs"
  /\ IF cfg.docs.sidebarPath = ""
       THEN /\ sidebar' = Autogenerated(docs)
            /\ phase' = "sidebar"
            /\ UNCHANGED <<corpus, fileName, now, cfg, docs, results>>
     ELSE IF ~ (LeafIds(tutorialSidebar) \subseteq docs)
       THEN Finish(Failed("sidebarDocIds"))
     ELSE /\ sidebar' = GenerateSidebar(tutorialSidebar)
          /\ phase' = "sidebar"
          /\ UNCHANGED <<corpus, fileName, now, cfg, docs, results>>

CheckLinks ==
  /\ phase = "sidebar"
  /\ IF BrokenLinks(corpus, fileName) # {} /\ cfg.onBrokenLinks = "throw"
       THEN Finish(Failed("brokenLinks"))
       ELSE Finish(Succeeded([sidebar |-> sidebar,
                              pages |-> docs,
                              footer |-> cfg.footer]))

Next ==
  \/ Tick
  \/ LoadConfig
  \/ LoadDocs
  \/ LoadSidebars
  \/ CheckLinks

Spec == Init /\ [][Next]_vars

(***************************************************************************)
(* Helpers of the properties.                                              *)
(***************************************************************************)
Finished == DOMAIN results

Ok(i) == results[i].status = "succeeded"

FailedFor(i, reason) == results[i].status = "failed" /\ results[i].reason = reason

Labels(nodes) == [ i \in DOMAIN nodes |-> nodes[i].label ]

RECURSIVE SiblingLabelsUnique(_)
SiblingLabelsUnique(nodes) ==
  /\ \A i, j \in DOMAIN nodes : i # j => nodes[i].label # nodes[j].label
  /\ \A i \in DOMAIN nodes :
       nodes[i].type = "category" => SiblingLabelsUnique(nodes[i].items)

\* the paths root -> (category ->)* node of a tree, as sequences of positions
RECURSIVE Paths(_)
Paths(nodes) ==
  { <<i>> : i \in DOMAIN nodes }
  \cup UNION { { <<i>> \o p : p \in Paths(nodes[i].items) }
               : i \in { k \in DOMAIN nodes : nodes[k].type = "category" } }

RECURSIVE NodeAt(_, _)
NodeAt(nodes, path) ==
  IF Len(path) = 1 THEN nodes[path[1]] ELSE NodeAt(nodes[path[1]].items, Tail(path))

\* the generated sidebar has, at every level, the labels of the declared
\* nodes in the declared order
RECURSIVE SameOrder(_, _)
SameOrder(generated, declared) ==
  /\ Labels(generated) = Labels(declared)
  /\ \A i \in DOMAIN declared :
       declared[i].type = "category" =>
         /\ generated[i].type = "category"
         /\ SameOrder(generated[i].items, declared[i].items)

\* the sidebars a build has generated: the running build's and the sites'
Sidebars ==
  (IF sidebar = None THEN {} ELSE { sidebar })
  \cup { results[i].site.sidebar : i \in { k \in Finished : Ok(k) } }

DocIds(items) == [ i \in DOMAIN items |-> items[i].docId ]

(***************************************************************************)
(* Properties.                                                             *)
(***************************************************************************)

\* C1: every leaf node of tutorialSidebar, at any depth, has the id of a
\* content document of the repository; a build over the repository's corpus
\* therefore never fails on an unresolvable sidebar id.
C1_LeafIdsExist ==
  /\ \A p \in Paths(tutorialSidebar) :
       NodeAt(tutorialSidebar, p).type = "doc" =>
         NodeAt(tutorialSidebar, p).id \in RepoDocIds
  /\ corpus = RepoDocIds => \A i \in Finished : ~ FailedFor(i, "sidebarDocIds")

\* a build over the repository's corpus has resolved every id of the descriptor
C1_Witness ==
  /\ corpus = RepoDocIds
  /\ phase = "sidebar"
  /\ LeafIds(tutorialSidebar) \subseteq docs
  /\ Cardinality(LeafIds(tutorialSidebar)) = 17

\* C2: no two children of one parent (the root list or one category's items)
\* have the same label, in the descriptor and in the sidebar generated from it.
C2_SiblingLabelsUnique ==
  /\ SiblingLabelsUnique(tutorialSidebar)
  /\ \A sb \in Sidebars : SiblingLabelsUnique(sb)

\* a generated sidebar in which the label Guide repeats under two parents
C2_Witness ==
  /\ sidebar # None
  /\ \E p, q \in Paths(sidebar) :
       /\ p # q
       /\ p[1] # q[1]
       /\ NodeAt(sidebar, p).label = "Guide"
       /\ NodeAt(sidebar, q).label = "Guide"

\* C3: the generated sidebar lists the nodes of every level in the declared
\* order, and the twelve SQL modules appear in declared order under exactly
\* one SQL heading.
C3_SidebarInDeclaredOrder ==
  \A sb \in Sidebars :
    /\ SameOrder(sb, tutorialSidebar)
    /\ Labels(sb) = <<"Home", "cURL", "Postman", "Git", "SQL">>
    /\ Cardinality({ p \in Paths(sb) : NodeAt(sb, p).label = "SQL" }) = 1
    /\ \A i \in DOMAIN sb :
         sb[i].label = "SQL" =>
           /\ sb[i].type = "category"
           /\ DocIds(sb[i].items) =
                <<"Introduction", "Getting-Started", "Querying-Data", "Filtering-Data",
                  "Joining-Tables", "Grouping-Data", "Set-Operations", "Modifying-Data",
                  "Subqueries", "Data-Types", "Managing-Tables", "Constraints">>

\* a finished build whose site carries the sidebar with the SQL category
C3_Witness ==
  \E i \in Finished :
    /\ Ok(i)
    /\ \E k \in DOMAIN results[i].site.sidebar :
         /\ results[i].site.sidebar[k].label = "SQL"
         /\ Len(results[i].site.sidebar[k].items) = 12

\* C4: with onBrokenLinks 'throw', a build over a corpus in which a link
\* targets the file of no document ends failed, never succeeded.
C4_BrokenLinkFailsBuild ==
  \A i \in Finished :
    BrokenLinks(corpus, fileName) # {} => results[i].status = "failed"

\* a build that got as far as the link check and failed on a broken link
C4_Witness ==
  \E i \in Finished :
    /\ FailedFor(i, "brokenLinks")
    /\ BrokenLinks(corpus, fileName) # {}

\* C5: a build whose descriptor has a leaf id that no document of the corpus
\* has ends failed; a build succeeds only if every leaf id is resolvable.
C5_UnresolvableIdFailsBuild ==
  \A i \in Finished :
    /\ ~ (LeafIds(tutorialSidebar) \subseteq corpus) => results[i].status = "failed"
    /\ Ok(i) => LeafIds(tutorialSidebar) \subseteq results[i].site.pages

\* a build over a corpus without the cURL guide failed on the sidebar's ids
C5_Witness ==
  \E i \in Finished :
    /\ FailedFor(i, "sidebarDocIds")
    /\ "CURL_GUIDE" \in LeafIds(tutorialSidebar) \ corpus

\* C6: every content document of the repository is the leaf of a path
\* root -> (category ->)* leaf of the descriptor, and every page of a built
\* site is linked from the site's sidebar.
C6_EveryDocumentReachable ==
  /\ \A id \in RepoDocIds :
       \E p \in Paths(tutorialSidebar) :
         /\ NodeAt(tutorialSidebar, p).type = "doc"
         /\ NodeAt(tutorialSidebar, p).id = id
  /\ \A i \in Finished :
       Ok(i) =>
         \A id \in results[i].site.pages :
           \E p \in Paths(results[i].site.sidebar) :
             /\ NodeAt(results[i].site.sidebar, p).type = "link"
             /\ NodeAt(results[i].site.sidebar, p).docId = id

\* a site built from the whole corpus of the repository
C6_Witness ==
  \E i \in Finished : Ok(i) /\ results[i].site.pages = RepoDocIds

\* C7 as stated: any two successful builds of the same configuration,
\* descriptor and corpus produce the same site, footer markup included (the
\* instant a build started is kept outside the site).
C7_BuildDeterministic ==
  \A i, j \in Finished :
    Ok(i) /\ Ok(j) => results[i].site = results[j].site

\* C7 amended: two successful builds of the same input that start in the same
\* calendar year produce the same site; the footer carries the year in which
\* the configuration was evaluated.
C7_BuildDeterministicWithinYear ==
  \A i, j \in Finished :
    /\ Ok(i) /\ Ok(j)
         /\ results[i].startedAt \div TicksPerYear = results[j].startedAt \div TicksPerYear
       => results[i].site = results[j].site
    /\ Ok(i) =>
         results[i].site.footer.copyright.year = results[i].startedAt \div TicksPerYear

\* two successful builds started at different instants of one year
C7_Witness ==
  \E i, j \in Finished :
    /\ Ok(i) /\ Ok(j)
    /\ results[i].startedAt # results[j].startedAt
    /\ results[i].startedAt \div TicksPerYear = results[j].startedAt \div TicksPerYear
    /\ results[i].site = results[j].site

\* C9: every node of the descriptor, at every depth, is a leaf {type: 'doc',
\* id, label} or a category {type: 'category', label, items} whose items are
\* such nodes; a build generates one sidebar entry of the matching kind for it.
C9_NodeShapes ==
  /\ WellFormed(tutorialSidebar)
  /\ \A sb \in Sidebars :
       /\ Paths(sb) = Paths(tutorialSidebar)
       /\ \A p \in Paths(sb) :
            (NodeAt(sb, p).type = "link") = IsLeaf(NodeAt(tutorialSidebar, p))

\* a generated sidebar with entries at depth one and at depth two
C9_Witness ==
  /\ sidebar # None
  /\ \E p, q \in Paths(tutorialSidebar) :
       /\ Len(p) = 1 /\ IsLeaf(NodeAt(tutorialSidebar, p))
       /\ Len(q) = 2 /\ IsLeaf(NodeAt(tutorialSidebar, q))
       /\ NodeAt(sidebar, q).type = "link"

\* the entry point names a path of the tree: a root category with the first
\* label and, among its items, a leaf (of the given type) with the second
NamesPath(entry, nodes, leafType) ==
  \E i \in DOMAIN nodes :
    /\ nodes[i].type = "category"
    /\ nodes[i].label = entry[1]
    /\ \E k \in DOMAIN nodes[i].items :
         /\ nodes[i].items[k].type = leafType
         /\ nodes[i].items[k].label = entry[2]

\* C10: each entry point of the home document (cURL -> Guide, Postman ->
\* Basics, Git -> Guide, SQL -> Home) names a path of the descriptor, and so
\* of every sidebar a build generates from it.
C10_EntryPointsExist ==
  \A sb \in Sidebars :
    \A e \in DOMAIN EntryPoints :
      /\ NamesPath(EntryPoints[e], tutorialSidebar, "doc")
      /\ NamesPath(EntryPoints[e], sb, "link")

\* the ids of the SQL modules, in declared order
SQLIds == [ i \in DOMAIN SQLItems |-> SQLItems[i].id ]

Range(s) == { s[i] : i \in DOMAIN s }

\* the documents a document links to: the documents its links name
LinkedFrom(id) == { DocIdOf(l) : l \in Range(DocOf(id).links) } \cap RepoDocIds

\* C11 as stated: no content document of a built corpus references or links
\* to another content document.
C11_DocumentsSelfContained ==
  \A i \in Finished : \A id \in corpus : LinkedFrom(id) \ { id } = {}

\* C11 amended: a content document may link to another one: of the documents
\* under src/, each SQL module except the last (Constraints) carries exactly
\* one relative link, to another SQL module, and the home document, the Git
\* guide and Constraints carry none; a build that fails on a broken link
\* fails on a link of a SQL module.
C11_OnlyModulesLinkToModules ==
  /\ \A id \in corpus \cap Ids(DocsInSource) :
       IF id \in Range(SQLIds) \ { "Constraints" }
         THEN /\ Len(DocOf(id).links) = 1
              /\ Cardinality(LinkedFrom(id)) = 1
              /\ LinkedFrom(id) \subseteq Range(SQLIds) \ { id }
         ELSE DocOf(id).links = <<>>
  /\ \A i \in Finished :
       FailedFor(i, "brokenLinks") =>
         \E b \in BrokenLinks(corpus, fileName) : b[1] \in Range(SQLIds)

\* a built site with the page of a module and the page of the module it links to
C11_Witness ==
  \E i \in Finished :
    /\ Ok(i)
    /\ \E id \in results[i].site.pages :
         /\ LinkedFrom(id) # {}
         /\ LinkedFrom(id) \subseteq results[i].site.pages \ { id }

\* C12 as stated: no option value of the configuration refers to the
\* navigation descriptor or to a content document.
C12_ConfigUnrelated ==
  /\ cfg # None => cfg.docs.sidebarPath = ""
  /\ \A p \in configPaths : p.ext # "md"

\* C12 amended: the configuration refers to the navigation descriptor, through
\* presets[0].docs.sidebarPath ('./sidebars.js'), which makes every build
\* generate its sidebar from the descriptor; no option value names a content
\* document.
C12_ConfigRefersToDescriptorOnly ==
  /\ cfg # None => cfg.docs.sidebarPath = "./sidebars.js"
  /\ sidebar # None => sidebar = GenerateSidebar(tutorialSidebar)
  /\ \A p \in configPaths : p.ext # "md"
  /\ \E p \in configPaths : p.base = "sidebars" /\ p.ext = "js"

\* a build that has followed docs.sidebarPath and generated the sidebar
C12_Witness ==
  /\ phase = "sidebar"
  /\ cfg.docs.sidebarPath = "./sidebars.js"
  /\ sidebar = GenerateSidebar(tutorialSidebar)
  /\ Len(sidebar) = 5

\* C13: evaluating the configuration and the descriptor during a build has no
\* side effect: no step of a build changes the documents of the corpus or
\* their files, and the descriptor evaluates to the same sidebar in every
\* build, before and after any other build.
C13_BuildLeavesInputsUnchanged ==
  [][ /\ corpus' = corpus
      /\ fileName' = fileName
      /\ \A i, j \in DOMAIN results' :
           /\ results'[i].status = "succeeded"
           /\ results'[j].status = "succeeded"
           => results'[i].site.sidebar = results'[j].site.sidebar
      /\ \A i \in DOMAIN results : results'[i] = results[i] ]_vars

\* two builds have run to the end over the same corpus
C13_Witness ==
  /\ Len(results) >= 2
  /\ Ok(1) /\ Ok(2)
  /\ results[1].site.pages = corpus
  /\ results[2].site.pages = corpus
  /\ results[1].startedAt # results[2].startedAt

TargetsOf(id) ==
  { target \in corpus : \E l \in Range(DocOf(id).links) : fileName[target] = l }

\* the documents visited by following the links from a document, until a
\* document has no link with a target or a document is visited again
RECURSIVE Follow(_, _)
Follow(id, seen) ==
  IF id \in seen \/ TargetsOf(id) = {}
    THEN <<id>>
    ELSE <<id>> \o Follow(CHOOSE target \in TargetsOf(id) : TRUE, seen \cup { id })

IsCategory(n) == n.type = "category"

\* the labels of the categories of a list of nodes, in the list's order
CategoryLabels(nodes) == Labels(SelectSeq(nodes, IsCategory))

\* C16: the tools the home document lists as covered (cURL, Postman, Git,
\* SQL) are exactly the labels of the root categories of the descriptor, in
\* the same order, and so the headings of every generated sidebar.
C16_ToolsAreRootCategories ==
  /\ \A i \in Finished : CategoryLabels(tutorialSidebar) = ToolsCovered
  /\ \A sb \in Sidebars : CategoryLabels(sb) = ToolsCovered

\* a built site whose sidebar has the four tools as its category headings
C16_Witness ==
  \E i \in Finished :
    /\ Ok(i)
    /\ "index" \in results[i].site.pages
    /\ CategoryLabels(results[i].site.sidebar) = <<"cURL", "Postman", "Git", "SQL">>

\* the paths of a tree that end in a leaf of the given type
LeafPaths(nodes, leafType) == { p \in Paths(nodes) : NodeAt(nodes, p).type = leafType }

\* C17: no document id is the id of more than one leaf of the descriptor, so
\* a generated sidebar links each document at exactly one place.
C17_DocumentIdsUnique ==
  /\ \A i \in Finished :
       \A p, q \in LeafPaths(tutorialSidebar, "doc") :
         NodeAt(tutorialSidebar, p).id = NodeAt(tutorialSidebar, q).id => p = q
  /\ \A sb \in Sidebars :
       \A id \in LeafIds(tutorialSidebar) :
         Cardinality({ p \in LeafPaths(sb, "link") : NodeAt(sb, p).docId = id }) = 1

\* a built site of seventeen pages with seventeen links in its sidebar
C17_Witness ==
  \E i \in Finished :
    /\ Ok(i)
    /\ Cardinality(results[i].site.pages) = 17
    /\ Cardinality(LeafPaths(results[i].site.sidebar, "link")) = 17

(***************************************************************************)
(* The Git guide: its second-level headings and its table of contents.  A  *)
(* heading is the sequence of its words; an anchor is the sequence of the  *)
(* words that its hyphens separate.                                        *)
(***************************************************************************)
TocEntry(text, anchor) == [text |-> text, anchor |-> anchor]

GitGuideHeadings ==
  << <<"Table", "of", "Contents">>,
     <<"Getting", "Started", "with", "GitHub">>,
     <<"Git", "Fundamentals">>,
     <<"Basic", "Git", "Operations">>,
     <<"Branching", "and", "Merging">>,
     <<"Advanced", "Branching", "Strategies">>,
     <<"Git", "Stash">>,
     <<"Rewriting", "History">>,
     <<"Reset", "vs", "Revert">>,
     <<"Remote", "Operations">>,
     <<"Advanced", "Git", "Techniques">>,
     <<"Git", "Workflows">>,
     <<"GitHub", "Essentials">>,
     <<"Troubleshooting", "and", "Recovery">> >>

\* mutation: the anchor of the eighth entry written reset-and-revert
GitGuideToc_wrongAnchor ==
  << TocEntry(<<"Getting", "Started", "with", "GitHub">>,
              <<"getting", "started", "with", "github">>),
     TocEntry(<<"Git", "Fundamentals">>,
              <<"git", "fundamentals">>),
     TocEntry(<<"Basic", "Git", "Operations">>,
              <<"basic", "git", "operations">>),
     TocEntry(<<"Branching", "and", "Merging">>,
              <<"branching", "and", "merging">>),
     TocEntry(<<"Advanced", "Branching", "Strategies">>,
              <<"advanced", "branching", "strategies">>),
     TocEntry(<<"Git", "Stash">>,
              <<"git", "stash">>),
     TocEntry(<<"Rewriting", "History">>,
              <<"rewriting", "history">>),
     TocEntry(<<"Reset", "vs", "Revert">>,
              <<"reset", "and", "revert">>),
     TocEntry(<<"Remote", "Operations">>,
              <<"remote", "operations">>),
     TocEntry(<<"Advanced", "Git", "Techniques">>,
              <<"advanced", "git", "techniques">>),
     TocEntry(<<"Git", "Workflows">>,
              <<"git", "workflows">>),
     TocEntry(<<"GitHub", "Essentials">>,
              <<"github", "essentials">>),
     TocEntry(<<"Troubleshooting", "and", "Recovery">>,
              <<"troubleshooting", "and", "recovery">>) >>

GitGuideToc ==
  << TocEntry(<<"Getting", "Started", "with", "GitHub">>,
              <<"getting", "started", "with", "github">>),
     TocEntry(<<"Git", "Fundamentals">>,
              <<"git", "fundamentals">>),
     TocEntry(<<"Basic", "Git", "Operations">>,
              <<"basic", "git", "operations">>),
     TocEntry(<<"Branching", "and", "Merging">>,
              <<"branching", "and", "merging">>),
     TocEntry(<<"Advanced", "Branching", "Strategies">>,
              <<"advanced", "branching", "strategies">>),
     TocEntry(<<"Git", "Stash">>,
              <<"git", "stash">>),
     TocEntry(<<"Rewriting", "History">>,
              <<"rewriting", "history">>),
     TocEntry(<<"Reset", "vs", "Revert">>,
              <<"reset", "vs", "revert">>),
     TocEntry(<<"Remote", "Operations">>,
              <<"remote", "operations">>),
     TocEntry(<<"Advanced", "Git", "Techniques">>,
              <<"advanced", "git", "techniques">>),
     TocEntry(<<"Git", "Workflows">>,
              <<"git", "workflows">>),
     TocEntry(<<"GitHub", "Essentials">>,
              <<"github", "essentials">>),
     TocEntry(<<"Troubleshooting", "and", "Recovery">>,
              <<"troubleshooting", "and", "recovery">>) >>

\* the lower-case form of the words of the headings
lowerCase ==
  ( "Advanced" :> "advanced" @@ "Basic" :> "basic" @@ "Branching" :> "branching"
    @@ "Contents" :> "contents" @@ "Essentials" :> "essentials" @@ "Fundamentals" :> "fundamentals"
    @@ "Getting" :> "getting" @@ "Git" :> "git" @@ "GitHub" :> "github"
    @@ "History" :> "history" @@ "Merging" :> "merging" @@ "Operations" :> "operations"
    @@ "Recovery" :> "recovery" @@ "Remote" :> "remote" @@ "Reset" :> "reset"
    @@ "Revert" :> "revert" @@ "Rewriting" :> "rewriting" @@ "Started" :> "started"
    @@ "Stash" :> "stash" @@ "Strategies" :> "strategies" @@ "Table" :> "table"
    @@ "Techniques" :> "techniques" @@ "Troubleshooting" :> "troubleshooting" @@ "Workflows" :> "workflows"
    @@ "and" :> "and" @@ "of" :> "of" @@ "vs" :> "vs"
    @@ "with" :> "with" )

\* the anchor the generator gives a heading: its words in lower case, joined
\* by hyphens
Slug(heading) == [ i \in DOMAIN heading |-> lowerCase[heading[i]] ]

TocHeading == <<"Table", "of", "Contents">>

IsSection(heading) == heading # TocHeading

\* C18: in the Git guide every entry of the table of contents links to the
\* slug of a second-level heading of the guide, every second-level heading
\* but the table's own has exactly one entry, and the entries are in the
\* order of the headings.
C18_TocMatchesHeadings ==
  "Git_Guide" \in corpus =>
    /\ \A e \in DOMAIN GitGuideToc :
         \E h \in DOMAIN GitGuideHeadings :
           Slug(GitGuideHeadings[h]) = GitGuideToc[e].anchor
    /\ \A h \in DOMAIN GitGuideHeadings :
         IsSection(GitGuideHeadings[h]) =>
           Cardinality({ e \in DOMAIN GitGuideToc :
                           GitGuideToc[e].anchor = Slug(GitGuideHeadings[h]) }) = 1
    /\ [ e \in DOMAIN GitGuideToc |-> GitGuideToc[e].anchor ]
         = [ k \in DOMAIN SelectSeq(GitGuideHeadings, IsSection) |->
               Slug(SelectSeq(GitGuideHeadings, IsSection)[k]) ]

\* a built site with the page of the Git guide and its thirteen sections
C18_Witness ==
  \E i \in Finished :
    /\ Ok(i)
    /\ "Git_Guide" \in results[i].site.pages
    /\ Len(GitGuideToc) = 13
    /\ Len(SelectSeq(GitGuideHeadings, IsSection)) = 13
    /\ GitGuideToc[13].anchor = Slug(GitGuideHeadings[14])

\* the two digits that begin the label of each SQL item
labelDigits ==
  ( "00 Introduction" :> <<0, 0>> @@ "01 Getting Started" :> <<0, 1>>
    @@ "02 Querying Data" :> <<0, 2>> @@ "03 Filtering Data" :> <<0, 3>>
    @@ "04 Joining Tables" :> <<0, 4>> @@ "05 Grouping Data" :> <<0, 5>>
    @@ "06 Set Operations" :> <<0, 6>> @@ "07 Modifying Data" :> <<0, 7>>
    @@ "08 Subqueries" :> <<0, 8>> @@ "09 Data Types" :> <<0, 9>>
    @@ "10 Managing Tables" :> <<1, 0>> @@ "11 Constraints" :> <<1, 1>> )

\* the number a label's two-digit prefix denotes
NumberPrefix(label) == 10 * labelDigits[label][1] + labelDigits[label][2]

\* the order of two labels as strings: by first character, then by second
LabelBefore(a, b) ==
  \/ labelDigits[a][1] < labelDigits[b][1]
  \/ /\ labelDigits[a][1] = labelDigits[b][1]
     /\ labelDigits[a][2] < labelDigits[b][2]

\* the items of a list are in the order that sorting by label gives
SortedByLabel(items) ==
  \A i, j \in DOMAIN items : i < j => LabelBefore(items[i].label, items[j].label)

\* C19: in the SQL category the two-digit prefix of each item's label is the
\* item's zero-based position in items (00, 01, ..., 11), so the prefixes
\* are consecutive and increasing and sorting by label gives the declared
\* order, in the descriptor and in every generated sidebar.
C19_LabelPrefixIsPosition ==
  /\ \A i \in Finished :
       /\ \A k \in DOMAIN SQLItems : NumberPrefix(SQLItems[k].label) = k - 1
       /\ SortedByLabel(SQLItems)
  /\ \A sb \in Sidebars :
       \A c \in DOMAIN sb :
         sb[c].label = "SQL" =>
           /\ \A k \in DOMAIN sb[c].items : NumberPrefix(sb[c].items[k].label) = k - 1
           /\ SortedByLabel(sb[c].items)

\* a built site whose SQL category runs from prefix 00 to prefix 11
C19_Witness ==
  \E i \in Finished :
    /\ Ok(i)
    /\ \E c \in DOMAIN results[i].site.sidebar :
         /\ results[i].site.sidebar[c].label = "SQL"
         /\ NumberPrefix(results[i].site.sidebar[c].items[1].label) = 0
         /\ NumberPrefix(results[i].site.sidebar[c].items[12].label) = 11

\* C20: the tree has depth at most two and no empty category: every category
\* is a child of the root, its items are non-empty and are all doc leaves,
\* and the only leaf at the root is the home document index, the first node.
C20_TreeShape ==
  /\ \A i \in Finished :
       /\ \A p \in Paths(tutorialSidebar) : Len(p) <= 2
       /\ \A p \in Paths(tutorialSidebar) :
            NodeAt(tutorialSidebar, p).type = "category" =>
              /\ Len(p) = 1
              /\ NodeAt(tutorialSidebar, p).items # <<>>
              /\ \A k \in DOMAIN NodeAt(tutorialSidebar, p).items :
                   NodeAt(tutorialSidebar, p).items[k].type = "doc"
       /\ \A k \in DOMAIN tutorialSidebar :
            tutorialSidebar[k].type = "doc" <=> k = 1
       /\ tutorialSidebar[1] = DocNode("index", "Home")
  /\ \A sb \in Sidebars :
       /\ \A p \in Paths(sb) : Len(p) <= 2
       /\ \A k \in DOMAIN sb : sb[k].type = "link" <=> k = 1
       /\ sb[1].docId = "index"

\* a generated sidebar with the home link first and links at depth two
C20_Witness ==
  /\ sidebar # None
  /\ sidebar[1].type = "link"
  /\ sidebar[1].docId = "index"
  /\ \E p \in Paths(sidebar) : Len(p) = 2 /\ NodeAt(sidebar, p).type = "link"
  /\ \A k \in 2..Len(sidebar) : sidebar[k].type = "category" /\ Len(sidebar[k].items) >= 1
=============================================================================
